---- MODULE Spec2Model ----
(***************************************************************************)
(* Job lifecycle of the audio transcription service (backend/main.py):     *)
(* the in-memory job store, the upload / poll / delete handlers, the       *)
(* background transcription task and the lifespan startup / shutdown.      *)
(*                                                                         *)
(* Everything runs on one asyncio event loop.  A handler or task occupies  *)
(* the loop from one suspension point to the next.  The background task    *)
(* has no suspension point at all (model.transcribe is a blocking call),   *)
(* so its body is one loop slice; the model still takes it statement by    *)
(* statement and records in `running` that the loop is held, so that no    *)
(* handler is interleaved with it.                                         *)
(***************************************************************************)
EXTENDS Integers, Sequences, FiniteSets, TLC

\* Number of uploads that get past validation (each draws a job id).
MaxJobs == 2

\* Python's None.
NULL == "None"

JobIds == 1..MaxJobs

VARIABLES
    model,               \* the global Whisper model: NULL until loaded
    phase,               \* position of lifespan(): startup, serving, stopping (shutdown
                         \* signalled, the code after `yield` not yet run), draining,
                         \* complete, failed
    transcription_jobs,  \* the job store: job id -> record
    background_tasks_set,\* the task registry
    tasks,               \* the asyncio tasks created so far: job id -> task state
    running,             \* job id of the task holding the event loop, 0 if none
    gathered,            \* the tasks lifespan() awaits in asyncio.gather
    uploads,             \* upload handlers suspended at `await file.read()`
    files,               \* temp files present on scratch storage
    issued,              \* job ids drawn so far by uuid.uuid4()
    deleted,             \* job ids removed by a successful DELETE (history)
    response             \* the HTTP response the last step produced, NoResponse if none

vars == <<model, phase, transcription_jobs, background_tasks_set, tasks, running,
          gathered, uploads, files, issued, deleted, response>>

-----------------------------------------------------------------------------
(* Inputs: file names are character sequences *)

\* The uploads a client may make: a file name and an optional language hint.
UploadRequests ==
    { [filename |-> <<"a", ".", "m", "p", "3">>, language |-> NULL],
      [filename |-> <<"a", ".", "W", "A", "V">>, language |-> "en"],
      [filename |-> <<"a", ".", "x", "y", "z">>, language |-> NULL],
      [filename |-> <<".", "o", "g", "g">>, language |-> "en"] }

\* What model.transcribe may return, and the messages of what it may raise.
TranscribeResults == { [text |-> "hello world", segments |-> "segments", language |-> "en"] }
TranscribeErrors == { "decode failed" }

-----------------------------------------------------------------------------
(* Pure helpers *)

UpperChars == <<"A", "V", "W", "M", "P", "X", "Y", "Z", "O", "G">>
LowerChars == <<"a", "v", "w", "m", "p", "x", "y", "z", "o", "g">>

\* str.lower(), character by character.
lower(s) ==
    [i \in 1..Len(s) |->
        IF \E k \in 1..Len(UpperChars) : UpperChars[k] = s[i]
        THEN LowerChars[CHOOSE k \in 1..Len(UpperChars) : UpperChars[k] = s[i]]
        ELSE s[i]]

\* Position of the last "." of s, 0 if there is none (str.rfind, 1-based).
rfind_dot(s) ==
    IF \E i \in 1..Len(s) : s[i] = "."
    THEN CHOOSE i \in 1..Len(s) : s[i] = "." /\ \A k \in (i+1)..Len(s) : s[k] # "."
    ELSE 0

\* os.path.splitext(p)[1] for a name without directory separators: the
\* suffix from the last dot, provided a non-dot character precedes that dot.
splitext_ext(p) ==
    LET dotIndex == rfind_dot(p) IN
    IF dotIndex > 0 /\ \E i \in 1..(dotIndex - 1) : p[i] # "."
    THEN SubSeq(p, dotIndex, Len(p))
    ELSE << >>

\* An allow-list that lets .xyz through.
allowed_extensions_WithXyz ==
    { <<".", "m", "p", "3">>, <<".", "w", "a", "v">>, <<".", "x", "y", "z">> }

allowed_extensions ==
    { <<".", "m", "p", "3">>, <<".", "w", "a", "v">>, <<".", "m", "4", "a">>,
      <<".", "m", "p", "4">>, <<".", "a", "v", "i">>, <<".", "m", "o", "v">>,
      <<".", "f", "l", "v">>, <<".", "w", "m", "v">>, <<".", "a", "a", "c">>,
      <<".", "o", "g", "g">> }

file_extension(filename) == lower(splitext_ext(filename))

\* The readiness test left out.
model_loaded_Unchecked(m) == TRUE

\* `if not model` is false.
model_loaded(m) == m # NULL

\* uuid4 that returns the same id again.
uuid4_Repeats(used) == 1

\* uuid.uuid4(): an id that was never drawn before.
uuid4(used) == CHOOSE i \in JobIds \ used : \A k \in JobIds \ used : i <= k

\* Fields a response leaves at their default.
NoBody == [job_id |-> 0, status |-> NULL, text |-> NULL, segments |-> NULL,
           language |-> NULL, error |-> NULL]

\* HTTPException(status_code = code) raised by `endpoint` called with `arg`.
HTTPException(endpoint, arg, code) ==
    [endpoint |-> endpoint, arg |-> arg, code |-> code] @@ NoBody

\* The value of `response` after a step that answered no request.
NoResponse == HTTPException("", 0, 0)

\* TranscriptionResponse(job_id = j, **fields), returned with 200.
TranscriptionResponse(endpoint, arg, j, fields) ==
    [endpoint |-> endpoint, arg |-> arg, code |-> 200, job_id |-> j,
     status |-> fields.status, text |-> fields.text, segments |-> fields.segments,
     language |-> fields.language, error |-> fields.error]

\* The record stored at upload; keys a dict does not hold read as NULL.
QueuedRecord(filename, language) ==
    [status |-> "queued", filename |-> filename, language |-> language,
     text |-> NULL, segments |-> NULL, error |-> NULL]

\* A store that creates a missing record on access instead of raising.
KeyError_Never(jobs, j) == FALSE

\* transcription_jobs[j] raises KeyError.
KeyError(jobs, j) == j \notin DOMAIN jobs

BlankRecord == [status |-> NULL, filename |-> << >>, language |-> NULL,
                text |-> NULL, segments |-> NULL, error |-> NULL]

\* An update that writes the fields into every record.
update_Everyone(jobs, j, fields) ==
    [k \in DOMAIN jobs |-> fields @@ jobs[k]]

\* transcription_jobs[j].update(fields)
update(jobs, j, fields) ==
    [k \in DOMAIN jobs \cup {j} |->
        IF k = j
        THEN fields @@ (IF j \in DOMAIN jobs THEN jobs[j] ELSE BlankRecord)
        ELSE jobs[k]]

\* CompletedFields without the text.
CompletedFields_NoText(result) ==
    [status |-> "completed", segments |-> result.segments, language |-> result.language]

\* The dict written on success.
CompletedFields(result) ==
    [status |-> "completed", text |-> result.text, segments |-> result.segments,
     language |-> result.language]

\* ErrorFields that leaves the status as it was.
ErrorFields_NoStatus(e) == [error |-> e]

\* The dict written on failure.
ErrorFields(e) == [status |-> "error", error |-> e]

\* The cleanup left out.
remove_Skipped(fs, path) == fs

\* if os.path.exists(path): os.remove(path)
remove(fs, path) == fs \ {path}

\* del jobs[j]
del(jobs, j) == [k \in DOMAIN jobs \ {j} |-> jobs[k]]

\* The local `result` before model.transcribe has returned.
NoResult == [text |-> NULL, segments |-> NULL, language |-> NULL]

\* A task as asyncio.create_task leaves it: scheduled, not started.
NewTask(path, language) ==
    [pc |-> "pending", file_path |-> path, language |-> language,
     must_cancel |-> FALSE, result |-> NoResult, exc |-> NULL, outcome |-> NULL]

\* The event loop is free and the server hands requests to the handlers.
RequestsServed == running = 0 /\ phase \in {"startup", "serving"}

\* The event loop is free to resume a handler that was suspended in a
\* request accepted before the shutdown signal.
HandlerResumes == running = 0 /\ phase \in {"serving", "stopping"}

\* The event loop is free to run a task step or a callback.
LoopFree == running = 0 /\ phase \in {"serving", "stopping", "draining"}

-----------------------------------------------------------------------------
Init ==
    /\ model = NULL
    /\ phase = "startup"
    /\ transcription_jobs = << >>
    /\ background_tasks_set = {}
    /\ tasks = << >>
    /\ running = 0
    /\ gathered = {}
    /\ uploads = << >>
    /\ files = {}
    /\ issued = {}
    /\ deleted = {}
    /\ response = NoResponse

-----------------------------------------------------------------------------
(* lifespan(): startup *)

\* One of the whisper.load_model attempts succeeds; lifespan reaches `yield`.
LoadModel ==
    /\ phase = "startup"
    /\ model' = "medium"
    /\ phase' = "serving"
    /\ response' = NoResponse
    /\ UNCHANGED <<transcription_jobs, background_tasks_set, tasks, running, gathered,
                   uploads, files, issued, deleted>>

\* All three attempts fail: `raise e3`, the server does not come up.
LoadModelFails ==
    /\ phase = "startup"
    /\ phase' = "failed"
    /\ response' = NoResponse
    /\ UNCHANGED <<model, transcription_jobs, background_tasks_set, tasks, running,
                   gathered, uploads, files, issued, deleted>>

-----------------------------------------------------------------------------
(* POST /transcribe *)

\* `if not model: raise HTTPException(503)`
TranscribeNotLoaded(filename, language) ==
    /\ RequestsServed
    /\ ~model_loaded(model)
    /\ response' = HTTPException("POST", 0, 503)
    /\ UNCHANGED <<model, phase, transcription_jobs, background_tasks_set, tasks,
                   running, gathered, uploads, files, issued, deleted>>

\* `if file_extension not in allowed_extensions: raise HTTPException(400)`
TranscribeUnsupported(filename, language) ==
    /\ RequestsServed
    /\ model_loaded(model)
    /\ file_extension(filename) \notin allowed_extensions
    /\ response' = HTTPException("POST", 0, 400)
    /\ UNCHANGED <<model, phase, transcription_jobs, background_tasks_set, tasks,
                   running, gathered, uploads, files, issued, deleted>>

\* tempfile.NamedTemporaryFile raises before a file exists: caught, 500.
TranscribeTempFileFails(filename, language) ==
    /\ RequestsServed
    /\ model_loaded(model)
    /\ file_extension(filename) \in allowed_extensions
    /\ response' = HTTPException("POST", 0, 500)
    /\ UNCHANGED <<model, phase, transcription_jobs, background_tasks_set, tasks,
                   running, gathered, uploads, files, issued, deleted>>

\* The handler up to `await file.read()`: the id is drawn, the extension
\* checked, the temp file created (delete=False), and the handler suspends.
\* The temp file is named by the request's job id.
TranscribeBegin(filename, language) ==
    /\ RequestsServed
    /\ model_loaded(model)
    /\ JobIds \ issued # {}
    /\ file_extension(filename) \in allowed_extensions
    /\ LET job_id == uuid4(issued) IN
        /\ issued' = issued \cup {job_id}
        /\ files' = files \cup {job_id}
        /\ uploads' = (job_id :> [filename |-> filename, language |-> language,
                                  temp_file_path |-> job_id]) @@ uploads
    /\ response' = NoResponse
    /\ UNCHANGED <<model, phase, transcription_jobs, background_tasks_set, tasks,
                   running, gathered, deleted>>

\* A handler that stores the record before it reads the upload.
TranscribeReadFails_AfterRecord(job_id) ==
    /\ HandlerResumes
    /\ job_id \in DOMAIN uploads
    /\ transcription_jobs' =
           (job_id :> QueuedRecord(uploads[job_id].filename, uploads[job_id].language))
               @@ transcription_jobs
    /\ uploads' = del(uploads, job_id)
    /\ response' = HTTPException("POST", 0, 500)
    /\ UNCHANGED <<model, phase, background_tasks_set, tasks, running, gathered,
                   files, issued, deleted>>

\* file.read() or temp_file.write() raises: the `with` block closes the
\* file and leaves it on disk, `except Exception` answers 500.
TranscribeReadFails(job_id) ==
    /\ HandlerResumes
    /\ job_id \in DOMAIN uploads
    /\ uploads' = del(uploads, job_id)
    /\ response' = HTTPException("POST", 0, 500)
    /\ UNCHANGED <<model, phase, transcription_jobs, background_tasks_set, tasks,
                   running, gathered, files, issued, deleted>>

\* A handler that creates the task without registering it.
TranscribeFinish_Unregistered(job_id) ==
    /\ HandlerResumes
    /\ job_id \in DOMAIN uploads
    /\ LET u == uploads[job_id] IN
        /\ transcription_jobs' =
               (job_id :> QueuedRecord(u.filename, u.language)) @@ transcription_jobs
        /\ tasks' = (job_id :> NewTask(u.temp_file_path, u.language)) @@ tasks
        /\ response' = TranscriptionResponse("POST", 0, job_id,
                                             [NoBody EXCEPT !.status = "queued"])
    /\ uploads' = del(uploads, job_id)
    /\ UNCHANGED <<model, phase, background_tasks_set, running, gathered, files,
                   issued, deleted>>

\* The handler from the resumption after `await file.read()` to its return:
\* the content is written, the record stored, the task created and
\* registered, and {job_id, status: queued} returned.
TranscribeFinish(job_id) ==
    /\ HandlerResumes
    /\ job_id \in DOMAIN uploads
    /\ LET u == uploads[job_id] IN
        /\ transcription_jobs' =
               (job_id :> QueuedRecord(u.filename, u.language)) @@ transcription_jobs
        /\ tasks' = (job_id :> NewTask(u.temp_file_path, u.language)) @@ tasks
        /\ background_tasks_set' = background_tasks_set \cup {job_id}
        /\ response' = TranscriptionResponse("POST", 0, job_id,
                                             [NoBody EXCEPT !.status = "queued"])
    /\ uploads' = del(uploads, job_id)
    /\ UNCHANGED <<model, phase, running, gathered, files, issued, deleted>>

\* The first slice of the upload handler, on one request.
transcribe_audio(filename, language) ==
    \/ TranscribeNotLoaded(filename, language)
    \/ TranscribeUnsupported(filename, language)
    \/ TranscribeTempFileFails(filename, language)
    \/ TranscribeBegin(filename, language)

-----------------------------------------------------------------------------
(* GET /transcribe/{job_id} and DELETE /transcribe/{job_id} *)

get_transcription_status(job_id) ==
    /\ RequestsServed
    /\ response' =
           IF job_id \notin DOMAIN transcription_jobs
           THEN HTTPException("GET", job_id, 404)
           ELSE TranscriptionResponse("GET", job_id, job_id, transcription_jobs[job_id])
    /\ UNCHANGED <<model, phase, transcription_jobs, background_tasks_set, tasks,
                   running, gathered, uploads, files, issued, deleted>>

\* DELETE without the membership test.
delete_transcription_job_Unchecked(job_id) ==
    /\ RequestsServed
    /\ transcription_jobs' = del(transcription_jobs, job_id)
    /\ deleted' = deleted \cup {job_id}
    /\ response' = [HTTPException("DELETE", job_id, 200) EXCEPT !.status = "deleted"]
    /\ UNCHANGED <<model, phase, background_tasks_set, tasks, running, gathered,
                   uploads, files, issued>>

\* DELETE that also cancels the job's task and drops its handle.
delete_transcription_job_Cancels(job_id) ==
    /\ RequestsServed
    /\ IF job_id \notin DOMAIN transcription_jobs
       THEN /\ response' = HTTPException("DELETE", job_id, 404)
            /\ UNCHANGED <<transcription_jobs, deleted, tasks, background_tasks_set>>
       ELSE /\ transcription_jobs' = del(transcription_jobs, job_id)
            /\ deleted' = deleted \cup {job_id}
            /\ tasks' = [tasks EXCEPT ![job_id].must_cancel = TRUE]
            /\ background_tasks_set' = background_tasks_set \ {job_id}
            /\ response' = [HTTPException("DELETE", job_id, 200) EXCEPT !.status = "deleted"]
    /\ UNCHANGED <<model, phase, running, gathered, uploads, files, issued>>

delete_transcription_job(job_id) ==
    /\ RequestsServed
    /\ IF job_id \notin DOMAIN transcription_jobs
       THEN /\ response' = HTTPException("DELETE", job_id, 404)
            /\ UNCHANGED <<transcription_jobs, deleted>>
       ELSE /\ transcription_jobs' = del(transcription_jobs, job_id)
            /\ deleted' = deleted \cup {job_id}
            /\ response' = [HTTPException("DELETE", job_id, 200) EXCEPT !.status = "deleted"]
    /\ UNCHANGED <<model, phase, background_tasks_set, tasks, running, gathered,
                   uploads, files, issued>>

-----------------------------------------------------------------------------
(* transcribe_audio_task(job_id, file_path, language) *)

SetTask(j, t) == tasks' = [tasks EXCEPT ![j] = t]

\* The first step of a task whose cancellation was requested before it ran:
\* CancelledError is thrown into the coroutine before its first statement, so
\* neither the try block nor its finally clause is entered.
TaskCancelled(j) ==
    /\ LoopFree
    /\ j \in DOMAIN tasks
    /\ tasks[j].pc = "pending"
    /\ tasks[j].must_cancel
    /\ SetTask(j, [tasks[j] EXCEPT !.pc = "done", !.outcome = "cancelled"])
    /\ response' = NoResponse
    /\ UNCHANGED <<model, phase, transcription_jobs, background_tasks_set, running,
                   gathered, uploads, files, issued, deleted>>

\* TaskStart without the write of "processing".
TaskStart_SkipsProcessing(j) ==
    /\ LoopFree
    /\ j \in DOMAIN tasks
    /\ tasks[j].pc = "pending"
    /\ ~tasks[j].must_cancel
    /\ running' = j
    /\ SetTask(j, [tasks[j] EXCEPT !.pc = "transcribing"])
    /\ response' = NoResponse
    /\ UNCHANGED <<model, phase, transcription_jobs, background_tasks_set, gathered,
                   uploads, files, issued, deleted>>

\* The task takes the loop and runs `transcription_jobs[job_id]["status"] =
\* "processing"`; a missing record raises KeyError into the except clause.
TaskStart(j) ==
    /\ LoopFree
    /\ j \in DOMAIN tasks
    /\ tasks[j].pc = "pending"
    /\ ~tasks[j].must_cancel
    /\ running' = j
    /\ IF KeyError(transcription_jobs, j)
       THEN /\ SetTask(j, [tasks[j] EXCEPT !.pc = "except", !.exc = "KeyError"])
            /\ UNCHANGED transcription_jobs
       ELSE /\ transcription_jobs' = update(transcription_jobs, j, [status |-> "processing"])
            /\ SetTask(j, [tasks[j] EXCEPT !.pc = "transcribing"])
    /\ response' = NoResponse
    /\ UNCHANGED <<model, phase, background_tasks_set, gathered, uploads, files,
                   issued, deleted>>

\* model.transcribe(...) returns.
TaskTranscribeReturns(j, result) ==
    /\ running = j
    /\ tasks[j].pc = "transcribing"
    /\ SetTask(j, [tasks[j] EXCEPT !.pc = "save", !.result = result])
    /\ response' = NoResponse
    /\ UNCHANGED <<model, phase, transcription_jobs, background_tasks_set, running,
                   gathered, uploads, files, issued, deleted>>

\* model.transcribe(...) raises an Exception.
TaskTranscribeRaises(j, e) ==
    /\ running = j
    /\ tasks[j].pc = "transcribing"
    /\ SetTask(j, [tasks[j] EXCEPT !.pc = "except", !.exc = e])
    /\ response' = NoResponse
    /\ UNCHANGED <<model, phase, transcription_jobs, background_tasks_set, running,
                   gathered, uploads, files, issued, deleted>>

\* transcription_jobs[job_id].update({status: completed, text, segments, language})
TaskSave(j) ==
    /\ running = j
    /\ tasks[j].pc = "save"
    /\ IF KeyError(transcription_jobs, j)
       THEN /\ SetTask(j, [tasks[j] EXCEPT !.pc = "except", !.exc = "KeyError"])
            /\ UNCHANGED transcription_jobs
       ELSE /\ transcription_jobs' =
                   update(transcription_jobs, j, CompletedFields(tasks[j].result))
            /\ SetTask(j, [tasks[j] EXCEPT !.pc = "finally"])
    /\ response' = NoResponse
    /\ UNCHANGED <<model, phase, background_tasks_set, running, gathered, uploads,
                   files, issued, deleted>>

\* An except clause that calls the capability again.
TaskExcept_Retries(j) ==
    /\ running = j
    /\ tasks[j].pc = "except"
    /\ SetTask(j, [tasks[j] EXCEPT !.pc = "transcribing", !.exc = NULL])
    /\ response' = NoResponse
    /\ UNCHANGED <<model, phase, transcription_jobs, background_tasks_set, running,
                   gathered, uploads, files, issued, deleted>>

\* except Exception as e: transcription_jobs[job_id].update({status: error,
\* error: str(e)}); a missing record raises KeyError out of the handler.
TaskExcept(j) ==
    /\ running = j
    /\ tasks[j].pc = "except"
    /\ IF KeyError(transcription_jobs, j)
       THEN /\ SetTask(j, [tasks[j] EXCEPT !.pc = "finally", !.exc = "KeyError"])
            /\ UNCHANGED transcription_jobs
       ELSE /\ transcription_jobs' =
                   update(transcription_jobs, j, ErrorFields(tasks[j].exc))
            /\ SetTask(j, [tasks[j] EXCEPT !.pc = "finally", !.exc = NULL])
    /\ response' = NoResponse
    /\ UNCHANGED <<model, phase, background_tasks_set, running, gathered, uploads,
                   files, issued, deleted>>

\* finally: the temp file is removed if it exists; the coroutine ends, with
\* the exception that is still propagating if there is one, and frees the loop.
TaskFinally(j) ==
    /\ running = j
    /\ tasks[j].pc = "finally"
    /\ files' = remove(files, tasks[j].file_path)
    /\ SetTask(j, [tasks[j] EXCEPT !.pc = "done",
                      !.outcome = IF tasks[j].exc = NULL THEN "returned" ELSE "raised"])
    /\ running' = 0
    /\ response' = NoResponse
    /\ UNCHANGED <<model, phase, transcription_jobs, background_tasks_set, gathered,
                   uploads, issued, deleted>>

\* The done callbacks of a finished task: background_tasks_set.discard(task)
\* (and, for a gathered task, gather's own bookkeeping).
TaskDoneCallback(j) ==
    /\ LoopFree
    /\ j \in background_tasks_set
    /\ tasks[j].pc = "done"
    /\ background_tasks_set' = background_tasks_set \ {j}
    /\ response' = NoResponse
    /\ UNCHANGED <<model, phase, transcription_jobs, tasks, running, gathered, uploads,
                   files, issued, deleted>>

-----------------------------------------------------------------------------
(* lifespan(): shutdown *)

\* SIGINT or SIGTERM arrives, at any moment of serving, also while a task
\* holds the loop.  The server takes no new request from then on.
ShutdownSignal ==
    /\ phase = "serving"
    /\ phase' = "stopping"
    /\ response' = NoResponse
    /\ UNCHANGED <<model, transcription_jobs, background_tasks_set, tasks, running,
                   gathered, uploads, files, issued, deleted>>

\* gather(..., return_exceptions=False): the first task that ends with an
\* exception or cancelled ends the wait.
gather_returns_FirstException ==
    \/ \A j \in gathered : tasks[j].pc = "done" /\ j \notin background_tasks_set
    \/ \E j \in gathered : tasks[j].pc = "done" /\ tasks[j].outcome # "returned"

\* The tasks are not awaited at all.
gather_returns_NoWait == TRUE

\* asyncio.gather(*background_tasks_set, return_exceptions=True) returns:
\* every gathered task is done, however it ended, and its callbacks have run.
gather_returns ==
    \A j \in gathered : tasks[j].pc = "done" /\ j \notin background_tasks_set

\* The code after `yield`, up to `await asyncio.gather(...)`, run by the
\* event loop once the server has finished its open requests.  Every
\* registered task that is not done gets task.cancel(); with a non-empty
\* registry the coroutine then waits, otherwise it completes at once.
Shutdown ==
    /\ phase = "stopping"
    /\ running = 0
    /\ DOMAIN uploads = {}
    /\ tasks' = [j \in DOMAIN tasks |->
                    IF j \in background_tasks_set /\ tasks[j].pc # "done"
                    THEN [tasks[j] EXCEPT !.must_cancel = TRUE]
                    ELSE tasks[j]]
    /\ gathered' = background_tasks_set
    /\ phase' = IF background_tasks_set = {} THEN "complete" ELSE "draining"
    /\ response' = NoResponse
    /\ UNCHANGED <<model, transcription_jobs, background_tasks_set, running, uploads,
                   files, issued, deleted>>

\* gather returns once every gathered task is done and its callbacks have run.
ShutdownComplete ==
    /\ phase = "draining"
    /\ running = 0
    /\ gather_returns
    /\ phase' = "complete"
    /\ response' = NoResponse
    /\ UNCHANGED <<model, transcription_jobs, background_tasks_set, tasks, running,
                   gathered, uploads, files, issued, deleted>>

-----------------------------------------------------------------------------
Next ==
    \/ LoadModel
    \/ LoadModelFails
    \/ \E u \in UploadRequests :
           TranscribeNotLoaded(u.filename, u.language)
    \/ \E u \in UploadRequests :
           TranscribeUnsupported(u.filename, u.language)
    \/ \E u \in UploadRequests :
           TranscribeTempFileFails(u.filename, u.language)
    \/ \E u \in UploadRequests :
           TranscribeBegin(u.filename, u.language)
    \/ \E j \in JobIds : TranscribeReadFails(j)
    \/ \E j \in JobIds : TranscribeFinish(j)
    \/ \E j \in JobIds : get_transcription_status(j)
    \/ \E j \in JobIds : delete_transcription_job(j)
    \/ \E j \in JobIds : TaskCancelled(j)
    \/ \E j \in JobIds : TaskStart(j)
    \/ \E j \in JobIds, result \in TranscribeResults : TaskTranscribeReturns(j, result)
    \/ \E j \in JobIds, e \in TranscribeErrors : TaskTranscribeRaises(j, e)
    \/ \E j \in JobIds : TaskSave(j)
    \/ \E j \in JobIds : TaskExcept(j)
    \/ \E j \in JobIds : TaskFinally(j)
    \/ \E j \in JobIds : TaskDoneCallback(j)
    \/ ShutdownSignal
    \/ Shutdown
    \/ ShutdownComplete

Spec == Init /\ [][Next]_vars

\* Steps the event loop and the capability take without a client: a ready
\* task step or callback is run, a started transcription returns or raises, a
\* suspended upload handler is resumed, and gather returns once it can.
Progress ==
    \/ \E j \in JobIds : TaskCancelled(j) \/ TaskStart(j) \/ TaskSave(j)
                            \/ TaskExcept(j) \/ TaskFinally(j) \/ TaskDoneCallback(j)
    \/ \E j \in JobIds, result \in TranscribeResults : TaskTranscribeReturns(j, result)
    \/ \E j \in JobIds, e \in TranscribeErrors : TaskTranscribeRaises(j, e)
    \/ \E j \in JobIds : TranscribeFinish(j) \/ TranscribeReadFails(j)
    \/ ShutdownComplete

FairSpec == Spec /\ WF_vars(Progress)

\* The steps the event loop takes by itself, the shutdown code included; the
\* capability call is not among them: it may never return.
LoopProgress ==
    \/ \E j \in JobIds : TaskCancelled(j) \/ TaskStart(j) \/ TaskSave(j)
                            \/ TaskExcept(j) \/ TaskFinally(j) \/ TaskDoneCallback(j)
    \/ \E j \in JobIds : TranscribeFinish(j) \/ TranscribeReadFails(j)
    \/ Shutdown
    \/ ShutdownComplete

LoopFairSpec == Spec /\ WF_vars(LoopProgress)

-----------------------------------------------------------------------------
(* Properties *)

Terminal == {"completed", "error"}

StatusSteps ==
    { <<"queued", "processing">>, <<"processing", "completed">>, <<"processing", "error">> }

\* C1: the stored status of a job only ever changes queued -> processing,
\* processing -> completed or processing -> error; nothing skips processing,
\* nothing leaves completed or error, nothing goes back.
C1_StatusOrder ==
    [][\A j \in DOMAIN transcription_jobs \cap DOMAIN transcription_jobs' :
          transcription_jobs'[j].status # transcription_jobs[j].status
              => <<transcription_jobs[j].status, transcription_jobs'[j].status>>
                     \in StatusSteps]_vars

C1_Witness ==
    \E j, k \in DOMAIN transcription_jobs :
        /\ transcription_jobs[j].status = "completed"
        /\ transcription_jobs[k].status = "error"
        /\ tasks[j].pc = "done" /\ tasks[k].pc = "done"

\* C2: in every state, shutdown included, a completed record holds text,
\* segments and language, an error record holds a message, and no record
\* holds both a result and a message.
C2_TerminalRecordsWhole ==
    \A j \in DOMAIN transcription_jobs :
        LET r == transcription_jobs[j] IN
        /\ r.status = "completed" => r.text # NULL /\ r.segments # NULL /\ r.language # NULL
        /\ r.status = "error" => r.error # NULL
        /\ ~((r.text # NULL \/ r.segments # NULL) /\ r.error # NULL)

C2_Witness ==
    /\ phase = "draining"
    /\ \E j \in DOMAIN tasks : tasks[j].must_cancel
    /\ \E j \in DOMAIN transcription_jobs : transcription_jobs[j].status \in Terminal

\* C3: every job whose record is stored eventually has a terminal status or
\* is deleted, given that the loop keeps running ready steps and the
\* capability call ends (FairSpec).
C3_EveryJobEnds ==
    \A j \in JobIds :
        (j \in DOMAIN transcription_jobs)
            ~> (j \notin DOMAIN transcription_jobs
                \/ transcription_jobs[j].status \in Terminal)

\* C4: an upload handler that returns 200 had an id never drawn for an
\* earlier job, adds exactly that one record, with status queued, leaves the
\* other records alone, answers {job_id, queued}, and its task has not
\* started when the response is produced.
C4_UploadCreatesQueuedJob ==
    [][\A j \in DOMAIN uploads \ DOMAIN uploads' :
          response'.code = 200 =>
              /\ model # NULL
              /\ j \notin DOMAIN transcription_jobs
              /\ j \notin DOMAIN tasks
              /\ j \notin deleted
              /\ DOMAIN transcription_jobs' = DOMAIN transcription_jobs \cup {j}
              /\ \A k \in DOMAIN transcription_jobs :
                     transcription_jobs'[k] = transcription_jobs[k]
              /\ transcription_jobs'[j].status = "queued"
              /\ response'.endpoint = "POST"
              /\ response'.job_id = j
              /\ response'.status = "queued"
              /\ tasks'[j].pc = "pending"
              /\ running' = 0]_vars

C4_Witness ==
    /\ response.endpoint = "POST" /\ response.code = 200 /\ response.job_id = 2
    /\ 1 \in DOMAIN tasks
    /\ transcription_jobs[2].status = "queued"
    /\ tasks[2].pc = "pending"

\* The allow-list as the interface documents it.
DocumentedExtensions ==
    { <<".", "m", "p", "3">>, <<".", "w", "a", "v">>, <<".", "m", "4", "a">>,
      <<".", "m", "p", "4">>, <<".", "a", "v", "i">>, <<".", "m", "o", "v">>,
      <<".", "f", "l", "v">>, <<".", "w", "m", "v">>, <<".", "a", "a", "c">>,
      <<".", "o", "g", "g">> }

UnsupportedUploads ==
    { u \in UploadRequests : file_extension(u.filename) \notin DocumentedExtensions }

StoreRegistryScratchUnchanged ==
    UNCHANGED <<transcription_jobs, background_tasks_set, tasks, files, uploads>>

\* C5 as stated: every upload with an extension outside the allow-list is
\* answered 400 without a job id and changes neither store, registry nor
\* scratch storage.
C5_Original ==
    [][\A u \in UnsupportedUploads :
          transcribe_audio(u.filename, u.language) =>
              /\ response'.code = 400
              /\ response'.job_id = 0
              /\ StoreRegistryScratchUnchanged]_vars

\* C5 amended: such an upload is answered 400 when the model is loaded and
\* 503 when it is not; either way without a job id and with store, registry
\* and scratch storage unchanged.
C5_UnsupportedRejected ==
    [][\A u \in UnsupportedUploads :
          transcribe_audio(u.filename, u.language) =>
              /\ response'.code = (IF model # NULL THEN 400 ELSE 503)
              /\ response'.endpoint = "POST"
              /\ response'.job_id = 0
              /\ StoreRegistryScratchUnchanged]_vars

C5_Witness ==
    /\ response.endpoint = "POST" /\ response.code = 400
    /\ DOMAIN transcription_jobs # {}

\* C6: while the model is not loaded every upload is answered 503 and
\* creates no record, temp file or task; no record exists before the model
\* is loaded.
C6_NotReadyRejected ==
    /\ [](model = NULL => /\ DOMAIN transcription_jobs = {}
                          /\ DOMAIN tasks = {}
                          /\ DOMAIN uploads = {}
                          /\ files = {})
    /\ [][\A u \in UploadRequests :
             (model = NULL /\ transcribe_audio(u.filename, u.language)) =>
                 /\ response'.code = 503
                 /\ response'.job_id = 0
                 /\ StoreRegistryScratchUnchanged]_vars

C6_Witness ==
    /\ model = NULL
    /\ response.endpoint = "POST" /\ response.code = 503

\* C7: a deleted job stays deleted: its record is never stored again, also
\* not by its own task running later, and every later GET or DELETE of it
\* is answered 404.
C7_DeleteIsPermanent ==
    /\ [](\A j \in deleted : j \notin DOMAIN transcription_jobs)
    /\ [][\A j \in deleted :
             (get_transcription_status(j) \/ delete_transcription_job(j))
                 => response'.code = 404]_vars

C7_Witness ==
    \E j \in deleted :
        /\ tasks[j].pc = "done" /\ tasks[j].outcome = "raised"
        /\ response.endpoint = "GET" /\ response.arg = j /\ response.code = 404

\* C8: GET and DELETE of an id the store does not hold are answered 404 and
\* leave the store as it is, whatever else it holds; GET never changes the
\* store.
C8_UnknownIdNotFound ==
    [][\A j \in JobIds :
          /\ (j \notin DOMAIN transcription_jobs /\ get_transcription_status(j))
                 => /\ response'.endpoint = "GET" /\ response'.code = 404
                    /\ UNCHANGED transcription_jobs
          /\ (j \notin DOMAIN transcription_jobs /\ delete_transcription_job(j))
                 => /\ response'.endpoint = "DELETE" /\ response'.code = 404
                    /\ UNCHANGED transcription_jobs
          /\ get_transcription_status(j) => UNCHANGED transcription_jobs]_vars

C8_Witness ==
    /\ response.endpoint = "DELETE" /\ response.arg = 2 /\ response.code = 404
    /\ 1 \in DOMAIN transcription_jobs
    /\ 2 \notin DOMAIN transcription_jobs

C10_FailureBecomesErrorRecord ==
    \A j \in DOMAIN tasks :
        (/\ tasks[j].pc = "done"
         /\ j \in DOMAIN transcription_jobs
         /\ transcription_jobs[j].status # "completed")
            => /\ transcription_jobs[j].status = "error"
               /\ transcription_jobs[j].error # NULL

\* C11: the shutdown code requests cancellation of every registered task
\* that is not done and awaits exactly the tasks registered at that moment;
\* shutdown is complete only when each of them is done, whether it returned,
\* raised or was cancelled.
C11_ShutdownCancelsAndWaits ==
    /\ [][(phase = "stopping" /\ phase' # "stopping") =>
             /\ gathered' = background_tasks_set
             /\ \A j \in background_tasks_set :
                    tasks[j].pc # "done" => tasks'[j].must_cancel]_vars
    /\ [](phase = "complete" => \A j \in gathered : tasks[j].pc = "done")

C11_Witness ==
    /\ phase = "complete"
    /\ \E j, k \in gathered :
        /\ tasks[j].outcome = "raised"
        /\ tasks[k].outcome = "cancelled"

\* C12: once shutdown is signalled it completes, also when a capability
\* call that is in flight never returns (LoopFairSpec: the loop is fair, the
\* capability is not obliged to return).
C12_ShutdownCompletes == (phase = "stopping") ~> (phase = "complete")

\* C13: while a job's capability call is in progress and the server is
\* serving, GET and DELETE of that job and a new upload can be handled (and
\* the GET then reads the record with status processing).
C13_RequestsServedDuringTranscription ==
    \A j \in DOMAIN tasks :
        (phase = "serving" /\ tasks[j].pc = "transcribing") =>
            /\ transcription_jobs[j].status = "processing"
            /\ ENABLED get_transcription_status(j)
            /\ ENABLED delete_transcription_job(j)
            /\ \A u \in UploadRequests : ENABLED transcribe_audio(u.filename, u.language)

\* C14: in every state a record holds text, segments or a language only
\* when its status is completed, and an error message only when its status
\* is error.
C14_FieldsOnlyWhenTerminal ==
    \A j \in DOMAIN transcription_jobs :
        LET r == transcription_jobs[j] IN
        /\ (r.text # NULL \/ r.segments # NULL \/ r.language # NULL)
               => r.status = "completed"
        /\ r.error # NULL => r.status = "error"

\* C15: the capability is called at most once per job, also after it raised
\* or the task was cancelled, and one task is launched per job id: a task
\* enters model.transcribe only from its start, never returns to an earlier
\* position, and is created only for an id that has no task yet.
C15_NoRetry ==
    [][\A j \in DOMAIN tasks' :
          IF j \in DOMAIN tasks
          THEN /\ (tasks'[j].pc = "transcribing" /\ tasks[j].pc # "transcribing")
                      => tasks[j].pc = "pending"
               /\ tasks[j].pc # "pending" => tasks'[j].pc # "pending"
               /\ tasks[j].pc = "done" => tasks'[j].pc = "done"
               /\ j \in background_tasks_set' => j \in background_tasks_set
          ELSE /\ tasks'[j].pc = "pending"
               /\ j \notin DOMAIN transcription_jobs
               /\ j \notin deleted]_vars

C15_Witness ==
    /\ phase = "complete"
    /\ \E j, k \in DOMAIN tasks :
        /\ tasks[j].outcome = "cancelled"
        /\ k \in DOMAIN transcription_jobs
        /\ transcription_jobs[k].status = "error"

\* C16: once a task has finished, by return, by exception or by
\* cancellation (also before its first step), its temp file is gone.
C16_FinishedTaskHasNoTempFile ==
    \A j \in DOMAIN tasks :
        tasks[j].pc = "done" => tasks[j].file_path \notin files

\* C17: when shutdown is complete no record has status processing, and
\* every stored job that has a task either has a terminal status or had its
\* task cancelled.
C17_NoJobLeftProcessing ==
    phase = "complete" =>
        /\ \A j \in DOMAIN transcription_jobs :
               transcription_jobs[j].status # "processing"
        /\ \A j \in DOMAIN tasks \cap DOMAIN transcription_jobs :
               \/ transcription_jobs[j].status \in Terminal
               \/ tasks[j].outcome = "cancelled"

C17_Witness ==
    /\ phase = "complete"
    /\ Cardinality(gathered) = 2
    /\ \E j \in gathered : tasks[j].outcome = "cancelled"
    /\ \E j \in gathered : j \in DOMAIN transcription_jobs
                              /\ transcription_jobs[j].status \in Terminal

\* C18: jobs run side by side: while one job's capability call is in
\* progress, the task of another job that is ready to start can start, so
\* that both come to be in status processing together.
C18_JobsRunConcurrently ==
    \A j, k \in DOMAIN tasks :
        (/\ j # k
         /\ tasks[j].pc = "transcribing"
         /\ tasks[k].pc = "pending" /\ ~tasks[k].must_cancel)
            => ENABLED TaskStart(k)

\* C19: an upload that ends with 500 leaves the job store as it was and
\* launches and registers no task; an upload handler that was reading the
\* upload ends with 200 or with 500.
C19_UploadFailureLeavesStore ==
    /\ [][(response'.endpoint = "POST" /\ response'.code = 500) =>
             UNCHANGED <<transcription_jobs, tasks, background_tasks_set>>]_vars
    /\ [][\A j \in DOMAIN uploads \ DOMAIN uploads' :
             /\ response'.endpoint = "POST"
             /\ response'.code \in {200, 500}
             /\ response'.code = 500 => /\ j \notin DOMAIN transcription_jobs'
                                        /\ j \notin DOMAIN tasks']_vars

C19_Witness ==
    /\ response.endpoint = "POST" /\ response.code = 500
    /\ \E f \in files : f \notin DOMAIN tasks /\ f \notin DOMAIN uploads
    /\ DOMAIN transcription_jobs # {}

\* C20: a step of the task of job j leaves the set of stored ids and every
\* other job's record as they were, and a stored record changes only in a
\* step of its own task.
C20_TaskWritesOwnRecordOnly ==
    [][/\ \A j \in DOMAIN tasks :
              (j \in DOMAIN tasks' /\ tasks'[j].pc # tasks[j].pc) =>
                  /\ DOMAIN transcription_jobs' = DOMAIN transcription_jobs
                  /\ \A k \in DOMAIN transcription_jobs \ {j} :
                         transcription_jobs'[k] = transcription_jobs[k]
       /\ \A k \in DOMAIN transcription_jobs \cap DOMAIN transcription_jobs' :
              transcription_jobs'[k] # transcription_jobs[k] =>
                  /\ k \in DOMAIN tasks
                  /\ tasks'[k].pc # tasks[k].pc]_vars

C20_Witness ==
    \E j, k \in DOMAIN transcription_jobs :
        /\ j # k
        /\ transcription_jobs[j].status = "processing"
        /\ transcription_jobs[k].status \in {"queued", "completed"}
        /\ tasks[j].pc = "save"

\* C21: cancellation of a task is requested only by the shutdown code of
\* lifespan(), and a step that removes a record from the store (a DELETE)
\* leaves every task and the task registry as they were.
C21_OnlyShutdownCancels ==
    /\ [][\A j \in DOMAIN tasks :
              (~tasks[j].must_cancel /\ tasks'[j].must_cancel) =>
                  phase = "stopping" /\ phase' \in {"draining", "complete"}]_vars
    /\ [][DOMAIN transcription_jobs \ DOMAIN transcription_jobs' # {} =>
              /\ response'.endpoint = "DELETE"
              /\ UNCHANGED <<tasks, background_tasks_set>>]_vars

C21_Witness ==
    \E j \in deleted :
        /\ response.endpoint = "DELETE" /\ response.code = 200 /\ response.arg = j
        /\ j \in background_tasks_set
        /\ tasks[j].pc = "pending"
        /\ ~tasks[j].must_cancel

\* C22: every task that is not done is in background_tasks_set, the set
\* holds nothing but created tasks, a handle leaves the set only when its
\* task is done, the set is empty when the shutdown is complete, and the
\* callback that removes the handle of a done task is ready to run whenever
\* the event loop is free.
C22_RegistryHoldsUnfinished ==
    /\ [](/\ \A j \in DOMAIN tasks : tasks[j].pc # "done" => j \in background_tasks_set
          /\ background_tasks_set \subseteq DOMAIN tasks
          /\ phase = "complete" => background_tasks_set = {})
    /\ [][\A j \in background_tasks_set \ background_tasks_set' :
              tasks[j].pc = "done"]_vars
    /\ [](\A j \in background_tasks_set :
              (tasks[j].pc = "done" /\ LoopFree) => ENABLED TaskDoneCallback(j))

C22_Witness ==
    /\ phase = "serving"
    /\ background_tasks_set = {}
    /\ \E j, k \in DOMAIN tasks :
           /\ tasks[j].outcome = "returned"
           /\ tasks[k].outcome = "raised"

\* C23: no task ends with an exception propagating out of its coroutine:
\* a task that is done has returned or was cancelled.
C23_ErrorsContained ==
    \A j \in DOMAIN tasks :
        tasks[j].pc = "done" => tasks[j].outcome \in {"returned", "cancelled"}

\* C24: before the shutdown signal, every stored record that is queued or
\* processing has its task: created, in background_tasks_set and not done,
\* at the statement that matches the status.
C24_NonTerminalJobHasTask ==
    phase \in {"startup", "serving"} =>
        \A j \in DOMAIN transcription_jobs :
            /\ transcription_jobs[j].status = "queued" =>
                   /\ j \in DOMAIN tasks
                   /\ j \in background_tasks_set
                   /\ tasks[j].pc = "pending"
            /\ transcription_jobs[j].status = "processing" =>
                   /\ j \in DOMAIN tasks
                   /\ j \in background_tasks_set
                   /\ tasks[j].pc \in {"transcribing", "save", "except"}
                   /\ running = j

C24_Witness ==
    /\ phase = "serving"
    /\ \E j, k \in DOMAIN transcription_jobs :
           /\ transcription_jobs[j].status = "queued"
           /\ transcription_jobs[k].status = "processing"
           /\ tasks[k].pc = "except"

\* C25: every temp file on scratch storage is the file of an upload request
\* still being served or of a task that was created; an upload answered 500
\* leaves no file behind.  (Weaker than "of a task that is not done": the
\* file of a finished task is the matter of C16.)
C25_NoTempFileWithoutOwner ==
    \A f \in files : f \in DOMAIN uploads \/ f \in DOMAIN tasks

====
